---- MODULE Spec2Model ----
(***************************************************************************)
(* Model of xii/linalg/convert.py: the expression collapser (collapse and  *)
(* its reducers), the dimension inference (get_dims, bmat_sizes) and the   *)
(* monolithic assembly (convert, block_mat_to_numpy, block_mat_to_petsc).  *)
(*                                                                         *)
(* Matrices live in a heap of backend handles; an expression refers to a   *)
(* matrix by its handle, so that in-place kernels (scale, axpy) and        *)
(* allocating kernels (copy, matMult, transpose) can be told apart.        *)
(* Every kernel call is appended to a log.  Entries are integers; the      *)
(* floating-point rounding of the backend is not modelled.                 *)
(***************************************************************************)
EXTENDS Integers, Sequences, FiniteSets, TLC

VARIABLES heap, expr, AA, algorithm, pc, out

vars == <<heap, expr, AA, algorithm, pc, out>>

(***************************************************************************)
(* Bounds of the model.                                                    *)
(***************************************************************************)
\* largest number of rows / columns of a leaf matrix
MaxDim == 2
\* longest Multiply chain among the inputs
MaxChain == 3
\* depth of the Python call stack at which RecursionError is raised
RecursionLimit == 12
\* largest number of block rows / block columns of a block grid
MaxBlocks == 2

Dims == 1..MaxDim
\* handles of the leaf matrices an input refers to
Handles == 1..3
\* scalar operands: the zero and a non-zero number
Scalars == {0, 2}

(***************************************************************************)
(* Values.  Every value is a record with a tag.                            *)
(***************************************************************************)
None == [tag |-> "none"]
Num(v) == [tag |-> "num", v |-> v]
Mat(h) == [tag |-> "mat", h |-> h]
Vec(n) == [tag |-> "vec", n |-> n]
block_mul(chain) == [tag |-> "mul", chain |-> chain]
block_add(A, B) == [tag |-> "add", A |-> A, B |-> B]
block_sub(A, B) == [tag |-> "sub", A |-> A, B |-> B]
block_transpose(A) == [tag |-> "tr", A |-> A]
\* a cbc.block operator that knows its matrix representation (.A)
Opaque(A) == [tag |-> "opaque", A |-> A]
\* an object collapse and get_dims know nothing about
Unknown == [tag |-> "unknown"]
block_mat(blocks) == [tag |-> "bmat", blocks |-> blocks]

is_petsc_mat(x) == x.tag = "mat"
is_petsc_vec(x) == x.tag = "vec"
is_number(x) == x.tag = "num"
hasattr_A(x) == x.tag \in {"add", "sub", "tr", "opaque"}

(***************************************************************************)
(* Dense content of a matrix handle: r rows, c columns, entries e.         *)
(***************************************************************************)
Cells(r, c) == (1..r) \X (1..c)

RECURSIVE DotSum(_, _, _, _, _)
DotSum(A, B, i, j, k) ==
  IF k = 0 THEN 0
  ELSE A.e[<<i, k>>] * B.e[<<k, j>>] + DotSum(A, B, i, j, k - 1)

\* A_.matMult(B_, C_)
MatMultKernel(A, B) ==
  [r |-> A.r, c |-> B.c,
   e |-> [p \in Cells(A.r, B.c) |-> DotSum(A, B, p[1], p[2], A.c)]]
\* A_.transpose(C_)
TransposeKernel(A) ==
  [r |-> A.c, c |-> A.r, e |-> [p \in Cells(A.c, A.r) |-> A.e[<<p[2], p[1]>>]]]
\* C_.axpy(alpha, B_): C <- C + alpha*B
AxpyKernel(C, alpha, B) ==
  [r |-> C.r, c |-> C.c,
   e |-> [p \in Cells(C.r, C.c) |-> C.e[p] + alpha * B.e[p]]]
\* C_.scale(s)
ScaleKernel(C, s) ==
  [r |-> C.r, c |-> C.c, e |-> [p \in Cells(C.r, C.c) |-> s * C.e[p]]]

(***************************************************************************)
(* A computation threads a record [st, val, heap, log]: the status ("ok"   *)
(* or the name of the exception raised), the value returned, the heap of   *)
(* matrix handles and the log of backend kernel calls.                     *)
(***************************************************************************)
Start(h) == [st |-> "ok", val |-> None, heap |-> h, log |-> <<>>]
Ret(v, m) == [st |-> "ok", val |-> v, heap |-> m.heap, log |-> m.log]
Raise(e, m) == [st |-> e, val |-> None, heap |-> m.heap, log |-> m.log]

Entry(op, tgt, src) == [op |-> op, tgt |-> tgt, src |-> src]

\* C_ = A_.copy(): a new handle with the content of a
Copy(a, m) ==
  LET n == Len(m.heap) + 1 IN
  [st |-> "ok", val |-> Mat(n), heap |-> Append(m.heap, m.heap[a]),
   log |-> Append(m.log, Entry("copy", n, a))]
\* C_.axpy(alpha, B_, ...): handle c is changed in place; the backend
\* rejects operands of different sizes
Axpy(c, alpha, b, m) ==
  IF m.heap[c].r # m.heap[b].r \/ m.heap[c].c # m.heap[b].c
  THEN [st |-> "BackendError", val |-> None, heap |-> m.heap,
        log |-> Append(m.log, Entry("axpy", c, b))]
  ELSE [st |-> "ok", val |-> Mat(c),
        heap |-> [m.heap EXCEPT ![c] = AxpyKernel(m.heap[c], alpha, m.heap[b])],
        log |-> Append(m.log, Entry("axpy", c, b))]
\* C_.scale(s): handle c is changed in place
Scale(c, s, m) ==
  [st |-> "ok", val |-> Mat(c),
   heap |-> [m.heap EXCEPT ![c] = ScaleKernel(m.heap[c], s)],
   log |-> Append(m.log, Entry("scale", c, c))]
\* C_ = PETSc.Mat(); A_.matMult(B_, C_): a new handle; the backend rejects
\* operands whose inner sizes differ
MatMult(a, b, m) ==
  LET n == Len(m.heap) + 1 IN
  IF m.heap[a].c # m.heap[b].r
  THEN [st |-> "BackendError", val |-> None, heap |-> m.heap,
        log |-> Append(m.log, Entry("matMult", n, a))]
  ELSE [st |-> "ok", val |-> Mat(n),
        heap |-> Append(m.heap, MatMultKernel(m.heap[a], m.heap[b])),
        log |-> Append(m.log, Entry("matMult", n, a))]
\* C_ = PETSc.Mat(); A_.transpose(C_): a new handle
Transpose(a, m) ==
  LET n == Len(m.heap) + 1 IN
  [st |-> "ok", val |-> Mat(n),
   heap |-> Append(m.heap, TransposeKernel(m.heap[a])),
   log |-> Append(m.log, Entry("transpose", n, a))]

(***************************************************************************)
(* Python's operators on collapsed operands.  Two numbers are combined     *)
(* arithmetically; anything else builds an expression node (cbc.block      *)
(* gives matrices __mul__/__rmul__/__add__/__radd__/__sub__/__rsub__       *)
(* that build block_mul/block_add/block_sub; block_mul flattens chains).   *)
(***************************************************************************)
ChainOf(x) == IF x.tag = "mul" THEN x.chain ELSE <<x>>

PyMul(a, b) ==
  IF is_number(a) /\ is_number(b) THEN Num(a.v * b.v)
  ELSE block_mul(ChainOf(a) \o ChainOf(b))
PyAdd(a, b) ==
  IF is_number(a) /\ is_number(b) THEN Num(a.v + b.v) ELSE block_add(a, b)
PySub(a, b) ==
  IF is_number(a) /\ is_number(b) THEN Num(a.v - b.v) ELSE block_sub(a, b)

\* reduce(operator.mul, B) for a non-empty sequence B
RECURSIVE reduce_mul(_)
reduce_mul(B) ==
  IF Len(B) = 1 THEN B[1]
  ELSE PyMul(reduce_mul(SubSeq(B, 1, Len(B) - 1)), B[Len(B)])

(***************************************************************************)
(* collapse and its reducers.  d is the depth of the call stack: every     *)
(* call takes a frame, and a call beyond RecursionLimit raises             *)
(* RecursionError, which is how Python ends an unbounded recursion.        *)
(***************************************************************************)
RECURSIVE collapse(_, _, _)
RECURSIVE collapse_tr(_, _, _)
RECURSIVE collapse_add(_, _, _)
RECURSIVE collapse_sub(_, _, _)
RECURSIVE collapse_mul(_, _, _)

\* collapse_tr, base case: the transpose kernel on a concrete matrix
tr_base(A, m) == Transpose(A.h, m)

\* collapse_tr, recursion: collapse_tr(collapse(bmat))
tr_recurse(bmat, m, d) ==
  LET r == collapse(bmat, m, d + 1) IN
  IF r.st # "ok" THEN r ELSE collapse_tr(r.val, r, d + 1)

collapse_tr(bmat, m, d) ==
  IF d > RecursionLimit THEN Raise("RecursionError", m)
  ELSE IF ~hasattr_A(bmat) THEN Raise("AttributeError", m)
  ELSE IF is_petsc_mat(bmat.A) THEN tr_base(bmat.A, m)
  ELSE tr_recurse(bmat, m, d)

\* axpy_base with the copy forgotten: the axpy lands on the operand itself
axpy_base_inplace(A, B, alpha, m) ==
  IF ~(m.heap[A.h].r = m.heap[B.h].r /\ m.heap[A.h].c = m.heap[B.h].c)
  THEN Raise("AssertionError", m)
  ELSE Axpy(A.h, alpha, B.h, m)

\* collapse_add / collapse_sub, base case: assert equal sizes, copy A, axpy
axpy_base(A, B, alpha, m) ==
  IF ~(m.heap[A.h].r = m.heap[B.h].r /\ m.heap[A.h].c = m.heap[B.h].c)
  THEN Raise("AssertionError", m)
  ELSE LET c == Copy(A.h, m) IN Axpy(c.val.h, alpha, B.h, c)

\* collapse_add, recursion: collapse_add(collapse(A) + collapse(B))
add_recurse(A, B, m, d) ==
  LET a == collapse(A, m, d + 1) IN
  IF a.st # "ok" THEN a
  ELSE LET b == collapse(B, a, d + 1) IN
       IF b.st # "ok" THEN b
       ELSE collapse_add(PyAdd(a.val, b.val), b, d + 1)

collapse_add(bmat, m, d) ==
  IF d > RecursionLimit THEN Raise("RecursionError", m)
  ELSE IF ~hasattr_A(bmat) \/ bmat.tag \notin {"add", "sub"}
       THEN Raise("AttributeError", m)
  ELSE IF is_petsc_mat(bmat.A) /\ is_petsc_mat(bmat.B)
       THEN axpy_base(bmat.A, bmat.B, 1, m)
  ELSE add_recurse(bmat.A, bmat.B, m, d)

\* collapse_sub, recursion: collapse_sub(collapse(A) - collapse(B))
sub_recurse(A, B, m, d) ==
  LET a == collapse(A, m, d + 1) IN
  IF a.st # "ok" THEN a
  ELSE LET b == collapse(B, a, d + 1) IN
       IF b.st # "ok" THEN b
       ELSE collapse_sub(PySub(a.val, b.val), b, d + 1)

collapse_sub(bmat, m, d) ==
  IF d > RecursionLimit THEN Raise("RecursionError", m)
  ELSE IF ~hasattr_A(bmat) \/ bmat.tag \notin {"add", "sub"}
       THEN Raise("AttributeError", m)
  ELSE IF is_petsc_mat(bmat.A) /\ is_petsc_mat(bmat.B)
       THEN axpy_base(bmat.A, bmat.B, -1, m)
  ELSE sub_recurse(bmat.A, bmat.B, m, d)

\* matmult_base with the assertion forgotten: the backend is called at once
matmult_base_unchecked(A, B, m) == MatMult(A.h, B.h, m)

\* collapse_mul, two matrices: assert the inner sizes, then matMult
matmult_base(A, B, m) ==
  IF m.heap[A.h].c # m.heap[B.h].r THEN Raise("AssertionError", m)
  ELSE MatMult(A.h, B.h, m)

\* collapse_mul, a matrix and a number: copy the matrix, scale the copy
scale_base(A, s, m) ==
  LET c == Copy(A.h, m) IN Scale(c.val.h, s.v, c)

\* collapse_mul, two operands of which one is not concrete:
\* collapse(collapse(A)*collapse(B))
mul_pair_recurse(A, B, m, d) ==
  LET a == collapse(A, m, d + 1) IN
  IF a.st # "ok" THEN a
  ELSE LET b == collapse(B, a, d + 1) IN
       IF b.st # "ok" THEN b
       ELSE collapse(PyMul(a.val, b.val), b, d + 1)

\* mul_chain_recurse with the operands of the product swapped
mul_chain_recurse_swapped(A, B, m, d) ==
  LET a == collapse(A, m, d + 1) IN
  IF a.st # "ok" THEN a
  ELSE LET b == collapse(reduce_mul(B), a, d + 1) IN
       IF b.st # "ok" THEN b
       ELSE collapse_mul(PyMul(b.val, a.val), b, d + 1)

\* collapse_mul, three operands or more:
\* collapse_mul(collapse(A)*collapse(reduce(operator.mul, B)))
mul_chain_recurse(A, B, m, d) ==
  LET a == collapse(A, m, d + 1) IN
  IF a.st # "ok" THEN a
  ELSE LET b == collapse(reduce_mul(B), a, d + 1) IN
       IF b.st # "ok" THEN b
       ELSE collapse_mul(PyMul(a.val, b.val), b, d + 1)

collapse_mul(bmat, m, d) ==
  IF d > RecursionLimit THEN Raise("RecursionError", m)
  ELSE IF bmat.tag # "mul" THEN Raise("AttributeError", m)
  ELSE LET A == bmat.chain[1]
           B == SubSeq(bmat.chain, 2, Len(bmat.chain))
       IN IF Len(B) = 1
          THEN IF is_petsc_mat(A) /\ is_petsc_mat(B[1])
                 THEN matmult_base(A, B[1], m)
               ELSE IF is_petsc_mat(A) /\ is_number(B[1])
                 THEN scale_base(A, B[1], m)
               ELSE IF is_petsc_mat(B[1]) /\ is_number(A)
                 THEN scale_base(B[1], A, m)
               ELSE mul_pair_recurse(A, B[1], m, d)
          ELSE mul_chain_recurse(A, B, m, d)

collapse(bmat, m, d) ==
  IF d > RecursionLimit THEN Raise("RecursionError", m)
  ELSE IF is_petsc_mat(bmat) \/ is_number(bmat) \/ is_petsc_vec(bmat)
       THEN Ret(bmat, m)
  ELSE IF bmat.tag = "mul" THEN collapse_mul(bmat, m, d + 1)
  ELSE IF bmat.tag = "add" THEN collapse_add(bmat, m, d + 1)
  ELSE IF bmat.tag = "sub" THEN collapse_sub(bmat, m, d + 1)
  ELSE IF bmat.tag = "tr" THEN collapse_tr(bmat, m, d + 1)
  ELSE IF hasattr_A(bmat)
       THEN IF is_petsc_mat(bmat.A) THEN Ret(bmat.A, m)
            ELSE Raise("AssertionError", m)
  ELSE Raise("ValueError", m)

(***************************************************************************)
(* get_dims: the shape of a thing, without evaluating it.  The result is   *)
(* [st, val]: val is <<rows, cols>> for an operator, <<n>> for the int a   *)
(* vector reports, and <<>> for None (a number).                           *)
(***************************************************************************)
Dim(v) == [st |-> "ok", val |-> v]
DimFail(e) == [st |-> e, val |-> <<>>]

\* assert len(dims_A) == len(dims_B); assert dims_A[1] == dims_B[0];
\* return (dims_A[0], dims_B[1])
dims_product(dims_A, dims_B) ==
  IF Len(dims_A) # 2 \/ Len(dims_B) # 2 THEN DimFail("TypeError")
  ELSE IF dims_A[2] # dims_B[1] THEN DimFail("AssertionError")
  ELSE Dim(<<dims_A[1], dims_B[2]>>)

RECURSIVE get_dims(_, _)
\* get_dims of a block_mul
get_dims_mul(thing, h) ==
  LET A == thing.chain[1]
      B == SubSeq(thing.chain, 2, Len(thing.chain))
      dims_A == get_dims(A, h)
      dims_B == get_dims(B[1], h)
  IN IF dims_A.st # "ok" THEN dims_A
     ELSE IF dims_B.st # "ok" THEN dims_B
     ELSE IF dims_A.val = <<>> THEN dims_B
     ELSE IF dims_B.val = <<>> THEN dims_A
     ELSE IF Len(B) = 1 THEN dims_product(dims_A.val, dims_B.val)
     ELSE LET dims_R == get_dims(reduce_mul(B), h) IN
          IF dims_R.st # "ok" THEN dims_R
          ELSE IF dims_R.val = <<>> THEN DimFail("TypeError")
          ELSE dims_product(dims_A.val, dims_R.val)

\* get_dims of a block_add or a block_sub
get_dims_add(thing, h) ==
  IF is_number(thing.A) THEN get_dims(thing.B, h)
  ELSE IF is_number(thing.B) THEN get_dims(thing.A, h)
  ELSE LET dims == get_dims(thing.A, h)
           dimsB == get_dims(thing.B, h)
       IN IF dims.st # "ok" THEN dims
          ELSE IF dimsB.st # "ok" THEN dimsB
          ELSE IF dims.val # dimsB.val THEN DimFail("AssertionError")
          ELSE dims

\* get_dims of a block_transpose
get_dims_tr(thing, h) ==
  LET dims == get_dims(thing.A, h) IN
  IF dims.st # "ok" THEN dims
  ELSE IF Len(dims.val) # 2 THEN DimFail("TypeError")
  ELSE Dim(<<dims.val[2], dims.val[1]>>)

get_dims(thing, h) ==
  IF is_petsc_vec(thing) THEN Dim(<<thing.n>>)
  ELSE IF is_petsc_mat(thing) THEN Dim(<<h[thing.h].r, h[thing.h].c>>)
  ELSE IF is_number(thing) THEN Dim(<<>>)
  ELSE IF thing.tag = "mul" THEN get_dims_mul(thing, h)
  ELSE IF thing.tag \in {"add", "sub"} THEN get_dims_add(thing, h)
  ELSE IF thing.tag = "tr" THEN get_dims_tr(thing, h)
  ELSE IF hasattr_A(thing)
       THEN IF is_petsc_mat(thing.A) THEN get_dims(thing.A, h)
            ELSE DimFail("AssertionError")
  ELSE DimFail("ValueError")

(***************************************************************************)
(* bmat_sizes: the row sizes and the column sizes of a block grid.  The    *)
(* grid is block_mat(blocks), blocks a sequence of rows of cells.  (The    *)
(* block_vec branches of bmat_sizes and convert are outside the model:     *)
(* the inputs are block grids of matrices and expressions.)                *)
(***************************************************************************)
NRows(bmat) == Len(bmat.blocks)
NCols(bmat) == Len(bmat.blocks[1])

\* the first exception among a sequence of results, or "ok"
FirstError(rs) ==
  IF \A k \in 1..Len(rs) : rs[k].st = "ok" THEN "ok"
  ELSE rs[CHOOSE k \in 1..Len(rs) :
            /\ rs[k].st # "ok"
            /\ \A l \in 1..(k - 1) : rs[l].st = "ok"].st

\* collect_size asserting only that some size was found
collect_size_lax(ds, axis) ==
  IF FirstError(ds) # "ok" THEN DimFail(FirstError(ds))
  ELSE IF \E k \in 1..Len(ds) : Len(ds[k].val) = 1 THEN DimFail("TypeError")
  ELSE LET size == {ds[k].val[axis] : k \in {l \in 1..Len(ds) : ds[l].val # <<>>}}
       IN IF Cardinality(size) = 0 THEN DimFail("AssertionError")
          ELSE Dim(CHOOSE x \in size : \A y \in size : x <= y)

\* size = set([dim[axis] for dim in dims if dim is not None]);
\* assert len(size) == 1; size.pop()
collect_size(ds, axis) ==
  IF FirstError(ds) # "ok" THEN DimFail(FirstError(ds))
  ELSE IF \E k \in 1..Len(ds) : Len(ds[k].val) = 1 THEN DimFail("TypeError")
  ELSE LET size == {ds[k].val[axis] : k \in {l \in 1..Len(ds) : ds[l].val # <<>>}}
       IN IF Cardinality(size) # 1 THEN DimFail("AssertionError")
          ELSE Dim(CHOOSE x \in size : TRUE)

bmat_sizes(bmat, h) ==
  IF bmat.tag # "bmat" THEN DimFail("ValueError")
  ELSE LET row_sizes ==
             [i \in 1..NRows(bmat) |->
                collect_size([j \in 1..NCols(bmat) |-> get_dims(bmat.blocks[i][j], h)], 1)]
           col_sizes ==
             [j \in 1..NCols(bmat) |->
                collect_size([i \in 1..NRows(bmat) |-> get_dims(bmat.blocks[i][j], h)], 2)]
       IN IF FirstError(row_sizes) # "ok" THEN DimFail(FirstError(row_sizes))
          ELSE IF FirstError(col_sizes) # "ok" THEN DimFail(FirstError(col_sizes))
          ELSE Dim([rows |-> [i \in 1..NRows(bmat) |-> row_sizes[i].val],
                    cols |-> [j \in 1..NCols(bmat) |-> col_sizes[j].val]])

(***************************************************************************)
(* Assembly of a grid of concrete blocks into one matrix.                  *)
(***************************************************************************)
RECURSIVE Offset(_, _)
\* np.cumsum([0] + sizes)[i-1]: the sizes before block i
Offset(sizes, i) == IF i = 1 THEN 0 ELSE Offset(sizes, i - 1) + sizes[i - 1]
Total(sizes) == Offset(sizes, Len(sizes) + 1)
\* the block a global index falls in
BlockOf(sizes, x) ==
  CHOOSE i \in 1..Len(sizes) : Offset(sizes, i) < x /\ x <= Offset(sizes, i) + sizes[i]

\* the matrix whose block (i, j) is blk[i][j] (a dense content, or None for a
\* zero block), the blocks having the given heights and widths
Assemble(blk, heights, widths) ==
  [r |-> Total(heights), c |-> Total(widths),
   e |-> [p \in Cells(Total(heights), Total(widths)) |->
            LET i == BlockOf(heights, p[1])
                j == BlockOf(widths, p[2])
            IN IF blk[i][j] = None THEN 0
               ELSE blk[i][j].e[<<p[1] - Offset(heights, i), p[2] - Offset(widths, j)>>]]]

\* scipy.sparse.bmat(blocks): the blocks of a block row must agree on their
\* height, those of a block column on their width, and no block row or
\* block column may be all None
numpy_block_mat(blk) ==
  LET n == Len(blk)
      k == Len(blk[1])
      hs(i) == {blk[i][j].r : j \in {l \in 1..k : blk[i][l] # None}}
      ws(j) == {blk[i][j].c : i \in {l \in 1..n : blk[l][j] # None}}
  IN IF \E i \in 1..n : Cardinality(hs(i)) # 1 THEN DimFail("ValueError")
     ELSE IF \E j \in 1..k : Cardinality(ws(j)) # 1 THEN DimFail("ValueError")
     ELSE Dim(Assemble(blk, [i \in 1..n |-> CHOOSE x \in hs(i) : TRUE],
                            [j \in 1..k |-> CHOOSE x \in ws(j) : TRUE]))

\* block_mat_to_numpy of a grid of matrices and numbers: a matrix becomes its
\* csr content, a number becomes None
block_mat_to_numpy(bmat, h) ==
  numpy_block_mat(
    [i \in 1..NRows(bmat) |->
       [j \in 1..NCols(bmat) |->
          IF is_petsc_mat(bmat.blocks[i][j]) THEN h[bmat.blocks[i][j].h] ELSE None]])

\* numpy_to_petsc: a new matrix handle with the content of the array
numpy_to_petsc(array, m) ==
  [st |-> "ok", val |-> Mat(Len(m.heap) + 1),
   heap |-> Append(m.heap, array), log |-> m.log]

\* diagonal_matrix(size, A): a new matrix handle, A times the identity
diagonal_matrix(size, A, m) ==
  [st |-> "ok", val |-> Mat(Len(m.heap) + 1),
   heap |-> Append(m.heap,
              [r |-> size, c |-> size,
               e |-> [p \in Cells(size, size) |-> IF p[1] = p[2] THEN A ELSE 0]]),
   log |-> m.log]

(***************************************************************************)
(* convert.                                                                *)
(***************************************************************************)
\* convert_block promoting a non-zero number to the plain identity
convert_block_unit(block, i, j, sizes, m) ==
  LET A == collapse(block, m, 2) IN
  IF A.st # "ok" THEN A
  ELSE IF is_number(A.val)
       THEN IF A.val.v # 0
            THEN IF sizes.rows[i] # sizes.cols[j] THEN Raise("AssertionError", A)
                 ELSE diagonal_matrix(sizes.rows[i], 1, A)
            ELSE Ret(Num(0), A)
  ELSE A

\* the body of convert's loop for the cell (i, j): collapse the block; a
\* non-zero number becomes a scaled identity, a zero stays the number 0
convert_block(block, i, j, sizes, m) ==
  LET A == collapse(block, m, 2) IN
  IF A.st # "ok" THEN A
  ELSE IF is_number(A.val)
       THEN IF A.val.v # 0
            THEN IF sizes.rows[i] # sizes.cols[j] THEN Raise("AssertionError", A)
                 ELSE diagonal_matrix(sizes.rows[i], A.val.v, A)
            ELSE Ret(Num(0), A)
  ELSE A

RECURSIVE convert_blocks(_, _, _, _)
\* convert's loop over the cells in row-major order, the first k cells:
\* val is the sequence of the converted blocks
convert_blocks(bmat, sizes, k, m) ==
  IF k = 0 THEN Ret(<<>>, m)
  ELSE LET prev == convert_blocks(bmat, sizes, k - 1, m)
           i == ((k - 1) \div NCols(bmat)) + 1
           j == ((k - 1) % NCols(bmat)) + 1
       IN IF prev.st # "ok" THEN prev
          ELSE LET A == convert_block(bmat.blocks[i][j], i, j, sizes, prev)
               IN IF A.st # "ok" THEN A
                  ELSE [A EXCEPT !.val = Append(prev.val, A.val)]

convert(bmat, alg, m) ==
  IF bmat.tag = "bmat"
  THEN LET sizes == bmat_sizes(bmat, m.heap) IN
       IF sizes.st # "ok" THEN Raise(sizes.st, m)
       ELSE LET b == convert_blocks(bmat, sizes.val, NRows(bmat) * NCols(bmat), m)
                blocks == [i \in 1..NRows(bmat) |->
                             [j \in 1..NCols(bmat) |-> b.val[(i - 1) * NCols(bmat) + j]]]
            IN IF b.st # "ok" THEN b
               ELSE IF \E k \in 1..Len(b.val) :
                          ~(is_petsc_mat(b.val[k]) \/ is_number(b.val[k]))
                    THEN Raise("AssertionError", b)
               ELSE IF alg = "" THEN Ret(block_mat(blocks), b)
               ELSE LET array == block_mat_to_numpy(block_mat(blocks), b.heap)
                    IN IF array.st # "ok" THEN Raise(array.st, b)
                       ELSE numpy_to_petsc(array.val, b)
  ELSE collapse(bmat, m, 2)

(***************************************************************************)
(* block_mat_to_petsc: the row-streamed assembly.                          *)
(***************************************************************************)
\* get_sizes is bound nowhere in the module: the call raises NameError
get_sizes(bmat, h) == DimFail("NameError")

\* the rows streamed into the matrix: block row i yields as many rows as its
\* shortest block has (izip), each block's row placed at its column offset
stream_rows(bmat, sizes, h) ==
  LET n == NRows(bmat)
      k == NCols(bmat)
      cnt == [i \in 1..n |->
                CHOOSE x \in {h[bmat.blocks[i][j].h].r : j \in 1..k} :
                  \A j \in 1..k : x <= h[bmat.blocks[i][j].h].r]
  IN [r |-> Total(sizes.rows), c |-> Total(sizes.cols),
      e |-> [p \in Cells(Total(sizes.rows), Total(sizes.cols)) |->
               IF \E i \in 1..n, j \in 1..k :
                    /\ Offset(cnt, i) < p[1] /\ p[1] <= Offset(cnt, i) + cnt[i]
                    /\ Offset(sizes.cols, j) < p[2]
                    /\ p[2] <= Offset(sizes.cols, j) + h[bmat.blocks[i][j].h].c
               THEN LET ij == CHOOSE q \in (1..n) \X (1..k) :
                                /\ Offset(cnt, q[1]) < p[1]
                                /\ p[1] <= Offset(cnt, q[1]) + cnt[q[1]]
                                /\ Offset(sizes.cols, q[2]) < p[2]
                                /\ p[2] <= Offset(sizes.cols, q[2])
                                             + h[bmat.blocks[q[1]][q[2]].h].c
                    IN h[bmat.blocks[ij[1]][ij[2]].h].e[
                         <<p[1] - Offset(cnt, ij[1]), p[2] - Offset(sizes.cols, ij[2])>>]
               ELSE 0]]

block_mat_to_petsc(bmat, m) ==
  LET sizes == get_sizes(bmat, m.heap) IN
  IF sizes.st # "ok" THEN Raise(sizes.st, m)
  ELSE IF \E i \in 1..NRows(bmat), j \in 1..NCols(bmat) :
            ~is_petsc_mat(bmat.blocks[i][j])
       THEN Raise("AttributeError", m)
  ELSE numpy_to_petsc(stream_rows(bmat, sizes.val, m.heap), m)

(***************************************************************************)
(* Inputs.  The heap holds one leaf matrix per handle, of any shape within *)
(* MaxDim; its entries are fixed by the handle and a pattern number.       *)
(***************************************************************************)
Patterns == {0, 1}

LeafMat(r, c, h, k) ==
  [r |-> r, c |-> c,
   e |-> [p \in Cells(r, c) |-> ((h * p[1] + (k + 1) * p[2]) % 3) - 1]]

Heaps ==
  {[h \in Handles |-> LeafMat(sh[h][1], sh[h][2], h, k)] :
     sh \in [Handles -> Dims \X Dims], k \in Patterns}

\* the operand at position k of a chain: the matrix of that position, or a number
HandleAt(k) == ((k - 1) % 3) + 1
OperandsAt(k) == {Mat(HandleAt(k))} \cup {Num(s) : s \in Scalars}
AllOperands == {Mat(h) : h \in Handles} \cup {Num(s) : s \in Scalars}

Chains(n) ==
  {ch \in [1..n -> AllOperands] : \A k \in 1..n : ch[k] \in OperandsAt(k)}

MulExprs == UNION {{block_mul(ch) : ch \in Chains(n)} : n \in 2..MaxChain}

AddSubExprs ==
  UNION {{block_add(A, B), block_sub(A, B)} :
           A \in {Mat(1), Num(0), Num(2)},
           B \in {Mat(1), Mat(2), Num(0), Num(2)}}

TrExprs ==
  {block_transpose(x) :
     x \in {Mat(1), Num(2), block_transpose(Mat(1)),
            block_add(Mat(1), Mat(2)), block_mul(<<Mat(1), Mat(2)>>)}}

NestedExprs ==
  {block_mul(<<block_mul(<<Mat(1), Mat(2)>>), Mat(3)>>),
   block_mul(<<Mat(1), block_mul(<<Mat(2), Mat(3)>>)>>),
   block_mul(<<block_add(Mat(1), Mat(2)), Mat(3)>>),
   block_mul(<<Mat(1), block_transpose(Mat(2))>>),
   block_mul(<<Mat(1), Mat(1)>>),
   block_add(block_transpose(Mat(1)), Mat(2)),
   block_add(block_mul(<<Mat(1), Mat(2)>>), Mat(3)),
   block_sub(block_mul(<<Num(2), Mat(1)>>), Mat(1)),
   Opaque(Mat(1)), Opaque(Num(2)), Unknown}

LeafExprs == {Mat(1), Num(0), Num(2), Vec(2)}

Exprs == LeafExprs \cup MulExprs \cup AddSubExprs \cup TrExprs \cup NestedExprs

(***************************************************************************)
(* The specification of the expression entry points: collapse(expr) and    *)
(* get_dims(expr) on an expression over the heap.                          *)
(***************************************************************************)
Init ==
  /\ heap \in Heaps
  /\ expr \in Exprs
  /\ AA = None
  /\ algorithm = "numpy"
  /\ pc = "start"
  /\ out = None

\* out = collapse(expr)
Collapse ==
  /\ pc = "start"
  /\ out' = collapse(expr, Start(heap), 1)
  /\ pc' = "collapsed"
  /\ UNCHANGED <<heap, expr, AA, algorithm>>

\* out = get_dims(expr)
GetDims ==
  /\ pc = "start"
  /\ out' = get_dims(expr, heap)
  /\ pc' = "sized"
  /\ UNCHANGED <<heap, expr, AA, algorithm>>

Next == Collapse \/ GetDims

Spec == Init /\ [][Next]_vars

(***************************************************************************)
(* Block grids.  A grid has N block rows and M block columns; block row i  *)
(* has rs[i] rows and block column j has cs[j] columns.  The cell (i, j)   *)
(* owns the heap handle CellHandle(i, j, M).  A background says what the   *)
(* cells hold, and one special cell may deviate from it.                   *)
(***************************************************************************)
Backgrounds == {"mats", "diag_s_zero", "diag_s_zeromat", "diag_mat_zero", "exprs"}
Specials == {"none", "num0", "num2", "badrows", "badcols", "tr"}
Algorithms == {"numpy", "foo", ""}

CellHandle(i, j, M) == (i - 1) * M + j
\* sizes alternate between p (odd positions) and q (even positions)
SizeAt(p, q, i) == IF i % 2 = 1 THEN p ELSE q
\* a size within Dims other than x
OtherSize(x) == (x % MaxDim) + 1

ZeroMat(r, c) == [r |-> r, c |-> c, e |-> [p \in Cells(r, c) |-> 0]]

GridCellMat(g, i, j) ==
  LET h == CellHandle(i, j, g.M)
      r == SizeAt(g.rp, g.rq, i)
      c == SizeAt(g.cp, g.cq, j)
      special == g.sk # "none" /\ g.pos = <<i, j>>
  IN IF special /\ g.sk = "badrows" THEN LeafMat(OtherSize(r), c, h, 0)
     ELSE IF special /\ g.sk = "badcols" THEN LeafMat(r, OtherSize(c), h, 0)
     ELSE IF special /\ g.sk = "tr" THEN LeafMat(c, r, h, 0)
     ELSE IF g.bg = "diag_s_zeromat" /\ i # j THEN ZeroMat(r, c)
     ELSE LeafMat(r, c, h, 0)

GridCell(g, i, j) ==
  LET h == CellHandle(i, j, g.M)
      special == g.sk # "none" /\ g.pos = <<i, j>>
  IN IF special /\ g.sk = "num0" THEN Num(0)
     ELSE IF special /\ g.sk = "num2" THEN Num(2)
     ELSE IF special /\ g.sk \in {"badrows", "badcols"} THEN Mat(h)
     ELSE IF special /\ g.sk = "tr" THEN block_transpose(Mat(h))
     ELSE IF g.bg = "mats" THEN Mat(h)
     ELSE IF g.bg = "diag_s_zero" THEN (IF i = j THEN Num(2) ELSE Num(0))
     ELSE IF g.bg = "diag_s_zeromat" THEN (IF i = j THEN Num(2) ELSE Mat(h))
     ELSE IF g.bg = "diag_mat_zero" THEN (IF i = j THEN Mat(h) ELSE Num(0))
     ELSE IF i = j /\ i = g.N THEN block_mul(<<Mat(h), Mat(h), Mat(h)>>)
     ELSE IF i = j THEN block_mul(<<Mat(h), Mat(h)>>)
     ELSE IF i < j THEN block_add(Mat(h), Mat(h))
     ELSE block_sub(block_mul(<<Num(2), Mat(h)>>), Mat(h))

GridParams ==
  {g \in [N : 1..MaxBlocks, M : 1..MaxBlocks, rp : Dims, rq : Dims, cp : Dims,
          cq : Dims, bg : Backgrounds, sk : Specials,
          pos : (1..MaxBlocks) \X (1..MaxBlocks)] :
     /\ g.pos[1] <= g.N /\ g.pos[2] <= g.M
     /\ (g.sk = "none" => g.pos = <<1, 1>>)
     /\ (g.N = 1 => g.rq = 1)
     /\ (g.M = 1 => g.cq = 1)}

GridHeap(g) ==
  [h \in 1..(g.N * g.M) |->
     GridCellMat(g, ((h - 1) \div g.M) + 1, ((h - 1) % g.M) + 1)]
GridOf(g) ==
  block_mat([i \in 1..g.N |-> [j \in 1..g.M |-> GridCell(g, i, j)]])

(***************************************************************************)
(* The specification of the block entry points: bmat_sizes(AA),            *)
(* convert(AA, algorithm) and block_mat_to_petsc on the grid of collapsed  *)
(* blocks that convert returns when the monolithic assembly is opted out.  *)
(***************************************************************************)
InitBlock ==
  /\ \E g \in GridParams : heap = GridHeap(g) /\ AA = GridOf(g)
  /\ expr = None
  /\ algorithm = "numpy"
  /\ pc = "start"
  /\ out = None

\* out = bmat_sizes(AA)
BmatSizes ==
  /\ pc = "start"
  /\ out' = bmat_sizes(AA, heap)
  /\ pc' = "sizes"
  /\ UNCHANGED <<heap, expr, AA, algorithm>>

\* out = convert(AA, algorithm)
Convert ==
  /\ pc = "start"
  /\ \E alg \in Algorithms :
       /\ algorithm' = alg
       /\ out' = convert(AA, alg, Start(heap))
  /\ pc' = "converted"
  /\ UNCHANGED <<heap, expr, AA>>

\* out = block_mat_to_petsc(convert(AA, ''))
BlockMatToPetsc ==
  /\ pc = "converted"
  /\ algorithm = ""
  /\ out.st = "ok"
  /\ out' = block_mat_to_petsc(out.val, out)
  /\ pc' = "streamed"
  /\ UNCHANGED <<heap, expr, AA, algorithm>>

NextBlock == BmatSizes \/ Convert \/ BlockMatToPetsc

SpecBlock == InitBlock /\ [][NextBlock]_vars

(***************************************************************************)
(* Properties.                                                             *)
(***************************************************************************)
\* the content of the matrix a successful result refers to
ValOf(r) == r.heap[r.val.h]
IsZero(A) == \A p \in DOMAIN A.e : A.e[p] = 0
ScaledIdentity(n, s) ==
  [r |-> n, c |-> n, e |-> [p \in Cells(n, n) |-> IF p[1] = p[2] THEN s ELSE 0]]

\* expr is a Multiply chain of concrete matrices
IsMatChain ==
  /\ expr.tag = "mul"
  /\ \A k \in 1..Len(expr.chain) : is_petsc_mat(expr.chain[k])
\* columns of operand k differ from rows of operand k + 1
Mismatch(k) == heap[expr.chain[k].h].c # heap[expr.chain[k + 1].h].r
Mismatches == {k \in 1..(Len(expr.chain) - 1) : Mismatch(k)}

\* C1: shape propagation: whenever get_dims(E) and collapse(E) are both
\* defined, get_dims(collapse(E)) equals get_dims(E).
C1_ShapePropagation ==
  (pc = "collapsed" /\ out.st = "ok" /\ get_dims(expr, heap).st = "ok")
    => get_dims(out.val, out.heap) = get_dims(expr, heap)

\* C2: transpose involution: collapse(Transpose(Transpose(A))) terminates
\* with a matrix equal to A entry by entry; collapsing Transpose(X) for an
\* X that is not a concrete matrix collapses X and transposes it once.
C2_TransposeInvolution ==
  pc = "collapsed" =>
    /\ \A h \in Handles :
         expr = block_transpose(block_transpose(Mat(h)))
           => out.st = "ok" /\ is_petsc_mat(out.val) /\ ValOf(out) = heap[h]
    /\ (expr.tag = "tr" /\ ~is_petsc_mat(expr.A))
         => LET X == collapse(expr.A, Start(heap), 1) IN
            (X.st = "ok" /\ is_petsc_mat(X.val))
              => /\ out.st = "ok"
                 /\ is_petsc_mat(out.val)
                 /\ ValOf(out) = TransposeKernel(ValOf(X))

\* C3: additive identity: collapse(Add(A, 0)) terminates with a matrix
\* equal to A; Add/Subtract of a matrix and a scalar yields a result of the
\* shape get_dims reports for the matrix operand.
C3_AdditiveIdentity ==
  pc = "collapsed" =>
    /\ \A h \in Handles :
         expr = block_add(Mat(h), Num(0))
           => out.st = "ok" /\ is_petsc_mat(out.val) /\ ValOf(out) = heap[h]
    /\ (/\ expr.tag \in {"add", "sub"}
        /\ \/ is_petsc_mat(expr.A) /\ is_number(expr.B)
           \/ is_number(expr.A) /\ is_petsc_mat(expr.B))
         => /\ out.st = "ok"
            /\ is_petsc_mat(out.val)
            /\ get_dims(out.val, out.heap) = get_dims(expr, heap)

\* C7 as stated: collapse of a Multiply chain of two or more concrete
\* matrices with a mismatched adjacent pair fails with a shape error, and
\* no backend kernel was invoked before the failure.
C7_NoKernelBeforeFailure ==
  (pc = "collapsed" /\ IsMatChain /\ Mismatches # {})
    => out.st = "AssertionError" /\ out.log = <<>>

\* C7 amended: such a collapse fails with a shape error, and the only
\* kernel calls before the failure are the matrix products of the operands
\* to the right of the rightmost mismatched pair: none for a chain of two
\* matrices, and none when the last pair is a mismatched one.
C7_OnlyTrailingProducts ==
  (pc = "collapsed" /\ IsMatChain /\ Mismatches # {})
    => LET k == CHOOSE x \in Mismatches : \A y \in Mismatches : y <= x IN
       /\ out.st = "AssertionError"
       /\ Len(out.log) = Len(expr.chain) - 1 - k
       /\ \A i \in 1..Len(out.log) : out.log[i].op = "matMult"
       /\ (Len(expr.chain) = 2 => out.log = <<>>)

\* C7 witness: a chain of two mismatched matrices has been collapsed
C7_Witness ==
  /\ pc = "collapsed" /\ IsMatChain /\ Len(expr.chain) = 2 /\ Mismatch(1)
  /\ out.st = "AssertionError"

\* C8: collapse never mutates an input handle: after collapse(E) returns or
\* fails every leaf handle has the content it had before the call, and
\* scale and axpy are applied only to the copy made just before them.
C8_InputsUnchanged ==
  pc = "collapsed" =>
    /\ \A h \in DOMAIN heap : out.heap[h] = heap[h]
    /\ \A i \in 1..Len(out.log) :
         out.log[i].op \in {"scale", "axpy"}
           => /\ i > 1
              /\ out.log[i - 1].op = "copy"
              /\ out.log[i - 1].tgt = out.log[i].tgt
              /\ out.log[i].tgt \notin DOMAIN heap

\* C8 witness: a collapse that ran axpy with a leaf as its operand
C8_Witness ==
  /\ pc = "collapsed" /\ out.st = "ok"
  /\ \E i \in 1..Len(out.log) :
       out.log[i].op = "axpy" /\ out.log[i].src \in DOMAIN heap

\* C10: associativity of the chain multiply: for matrices A, B, C of
\* compatible shapes collapse(Multiply([A, B, C])) terminates and equals
\* collapse(Multiply([Multiply([A, B]), C])).
C10_ChainAssociative ==
  (/\ pc = "collapsed" /\ IsMatChain /\ Len(expr.chain) = 3
   /\ Mismatches = {})
    => LET nested == block_mul(<<block_mul(<<expr.chain[1], expr.chain[2]>>),
                                expr.chain[3]>>)
           o == collapse(nested, Start(heap), 1)
       IN /\ out.st = "ok" /\ is_petsc_mat(out.val)
          /\ o.st = "ok" /\ is_petsc_mat(o.val)
          /\ ValOf(out) = ValOf(o)

\* C10 witness: a chain of three compatible matrices, not all of one
\* column, has been collapsed to a non-zero product
C10_Witness ==
  /\ pc = "collapsed" /\ IsMatChain /\ Len(expr.chain) = 3 /\ Mismatches = {}
  /\ heap[expr.chain[1].h].c > 1 /\ heap[expr.chain[2].h].c > 1
  /\ out.st = "ok" /\ ~IsZero(ValOf(out))

(***************************************************************************)
(* Properties of the block entry points.                                   *)
(***************************************************************************)
GridCellAt(i, j) == AA.blocks[i][j]
GridCells == (1..NRows(AA)) \X (1..NCols(AA))
\* the shape get_dims reports for the cell (i, j)
CellDims(i, j) == get_dims(GridCellAt(i, j), heap)
DimBearing(i, j) == CellDims(i, j).st = "ok" /\ Len(CellDims(i, j).val) = 2

\* a square grid, the same non-zero number in every diagonal cell
DiagScalarGrid ==
  /\ NRows(AA) = NCols(AA)
  /\ \A i \in 1..NRows(AA) :
       /\ is_number(GridCellAt(i, i))
       /\ GridCellAt(i, i).v # 0
       /\ GridCellAt(i, i) = GridCellAt(1, 1)
\* every off-diagonal cell is the number 0
OffDiagonalNumberZero ==
  \A q \in GridCells : q[1] # q[2] => GridCellAt(q[1], q[2]) = Num(0)
\* every off-diagonal cell is the number 0 or a concrete all-zero matrix
OffDiagonalZero ==
  \A q \in GridCells :
    q[1] # q[2] =>
      \/ GridCellAt(q[1], q[2]) = Num(0)
      \/ /\ is_petsc_mat(GridCellAt(q[1], q[2]))
         /\ IsZero(heap[GridCellAt(q[1], q[2]).h])

\* the block (i, j) of the assembled matrix A, for the given sizes
BlockAt(A, sizes, i, j) ==
  [r |-> sizes.rows[i], c |-> sizes.cols[j],
   e |-> [p \in Cells(sizes.rows[i], sizes.cols[j]) |->
            A.e[<<Offset(sizes.rows, i) + p[1], Offset(sizes.cols, j) + p[2]>>]]]

\* C4 as stated: for a square grid with the non-zero scalar s in the diagonal
\* cells and the scalar 0 in the others, convert succeeds and yields s times
\* the identity.
C4_DiagonalScalarPromotion ==
  (pc = "converted" /\ algorithm # "" /\ DiagScalarGrid /\ OffDiagonalNumberZero)
    => /\ out.st = "ok"
       /\ is_petsc_mat(out.val)
       /\ ValOf(out) = ScaledIdentity(ValOf(out).r, GridCellAt(1, 1).v)

\* C4 amended: for a square grid with the non-zero scalar s in the diagonal
\* cells and zero elsewhere, convert yields s times the identity of the
\* inferred size when bmat_sizes can infer the sizes (every block row and
\* block column holds a zero block given as a concrete matrix, the blocks
\* agree) and row i is as high as column i is wide; otherwise, and so when
\* every other cell is the scalar 0, it fails on an assertion.
C4_PromotionWhenSized ==
  (pc = "converted" /\ algorithm # "" /\ DiagScalarGrid /\ OffDiagonalZero)
    => LET sizes == bmat_sizes(AA, heap) IN
       IF /\ sizes.st = "ok"
          /\ \A i \in 1..NRows(AA) : sizes.val.rows[i] = sizes.val.cols[i]
       THEN /\ out.st = "ok"
            /\ is_petsc_mat(out.val)
            /\ ValOf(out) = ScaledIdentity(Total(sizes.val.rows), GridCellAt(1, 1).v)
       ELSE out.st = "AssertionError"

\* C4 witness: a diagonal-scalar grid of two block rows whose sizes the zero
\* matrices off the diagonal give has been assembled
C4_Witness ==
  /\ pc = "converted" /\ algorithm = "numpy"
  /\ DiagScalarGrid /\ OffDiagonalZero /\ NRows(AA) = 2
  /\ out.st = "ok" /\ ValOf(out).r > 2

\* C5: in convert, every scalar cell off the diagonal contributes an
\* all-zero block of size row_sizes[i] x col_sizes[j]; a non-zero scalar on
\* the diagonal with row_sizes[i] = col_sizes[i] becomes that scalar times
\* the identity.  (Grids of concrete matrices and numbers whose sizes
\* bmat_sizes infers.)
C5_OffDiagonalScalarIsZeroBlock ==
  (/\ pc = "converted" /\ algorithm = "numpy"
   /\ bmat_sizes(AA, heap).st = "ok"
   /\ \A q \in GridCells :
        is_petsc_mat(GridCellAt(q[1], q[2])) \/ is_number(GridCellAt(q[1], q[2])))
    => LET sizes == bmat_sizes(AA, heap).val IN
       \A q \in GridCells :
         is_number(GridCellAt(q[1], q[2])) =>
           IF q[1] # q[2]
           THEN /\ out.st = "ok"
                /\ IsZero(BlockAt(ValOf(out), sizes, q[1], q[2]))
           ELSE (GridCellAt(q[1], q[2]).v # 0 /\ sizes.rows[q[1]] = sizes.cols[q[2]])
                  => (out.st = "ok"
                        => BlockAt(ValOf(out), sizes, q[1], q[2])
                             = ScaledIdentity(sizes.rows[q[1]], GridCellAt(q[1], q[2]).v))

\* C6: the two assembly strategies agree: for a grid whose cells collapse to
\* concrete matrices of consistent sizes, the row-streamed assembly
\* (block_mat_to_petsc) completes as the intermediate-format one
\* (convert with the default algorithm) does, and yields the same matrix, of
\* size (sum of row sizes) x (sum of column sizes).
C6_StrategiesAgree ==
  pc = "streamed" =>
    LET X == convert(AA, "numpy", Start(heap))
        B == convert(AA, "", Start(heap))
        sizes == bmat_sizes(AA, heap)
    IN (/\ B.st = "ok"
        /\ \A q \in GridCells : is_petsc_mat(B.val.blocks[q[1]][q[2]]))
         => /\ X.st = "ok"
            /\ out.st = "ok"
            /\ is_petsc_mat(out.val)
            /\ ValOf(out) = ValOf(X)
            /\ ValOf(out).r = Total(sizes.val.rows)
            /\ ValOf(out).c = Total(sizes.val.cols)

\* two dimension-bearing cells of one block row report different row sizes
RowConflict ==
  \E q1 \in GridCells, q2 \in GridCells :
    /\ q1[1] = q2[1] /\ DimBearing(q1[1], q1[2]) /\ DimBearing(q2[1], q2[2])
    /\ CellDims(q1[1], q1[2]).val[1] # CellDims(q2[1], q2[2]).val[1]
\* two dimension-bearing cells of one block column report different column sizes
ColConflict ==
  \E q1 \in GridCells, q2 \in GridCells :
    /\ q1[2] = q2[2] /\ DimBearing(q1[1], q1[2]) /\ DimBearing(q2[1], q2[2])
    /\ CellDims(q1[1], q1[2]).val[2] # CellDims(q2[1], q2[2]).val[2]

\* C9: block-size consistency: bmat_sizes fails whenever two dimension-bearing
\* cells of one block row report different row sizes, or two of one block
\* column different column sizes; scalar cells are ignored: the sizes
\* returned are those of the dimension-bearing cells.
C9_BlockSizeConsistency ==
  pc = "sizes" =>
    /\ (RowConflict \/ ColConflict) => out.st # "ok"
    /\ out.st = "ok" =>
         \A q \in GridCells :
           DimBearing(q[1], q[2]) =>
             /\ out.val.rows[q[1]] = CellDims(q[1], q[2]).val[1]
             /\ out.val.cols[q[2]] = CellDims(q[1], q[2]).val[2]

\* C9 witness: bmat_sizes has failed on a grid with a row conflict and
\* no column conflict
C9_Witness ==
  pc = "sizes" /\ RowConflict /\ ~ColConflict /\ out.st = "AssertionError"

====
